---- MODULE Spec2Model ----
(***************************************************************************)
(* A model of src/main.py: the download / classify / extract / tag /       *)
(* verify pipeline of the memory downloader.                               *)
(*                                                                         *)
(* Strings are sequences of tokens (<<"a", ".PNG">> is "a.PNG"): lower(),  *)
(* endswith(), replace(), split() and strip() act on tokens the way the    *)
(* Python methods act on the text.  A JSON value is a tagged record, so    *)
(* that a field holding a number instead of text is a value of the model.  *)
(* The file system is the set of paths below download_folder that exist;   *)
(* a directory is a path ending in "/".                                    *)
(***************************************************************************)
EXTENDS Integers, Sequences, FiniteSets, TLC

\* ------------------------------------------------------------------ bounds
\* records in a manifest
MaxItems == 2
\* entries in an archive
MaxEntries == 2
\* records in a manifest that is run twice
MaxRerunItems == 1

\* ------------------------------------------------------- program constants
max_retries == 3
backoff == 2

SUPPORTED_TYPES ==
    << ".jpg", ".jpeg", ".heic", ".mp4", ".mov", ".png", ".avi", ".wmv",
       ".webp", ".mkv", ".m4v" >>

VIDEO_EXTENSIONS == << ".mp4", ".mov", ".avi", ".wmv", ".mkv", ".m4v" >>

\* ------------------------------------------------------------ text helpers
\* str.lower() on one token
LowerTok(t) ==
    CASE t = ".PNG"  -> ".png"
      [] t = ".JPG"  -> ".jpg"
      [] t = ".MP4"  -> ".mp4"
      [] t = "Video" -> "video"
      [] t = "Image" -> "image"
      [] t = "ZIP"   -> "zip"
      [] t = "Application/" -> "application/"
      [] OTHER -> t

Lower(s) == [ i \in DOMAIN s |-> LowerTok(s[i]) ]

\* str.endswith(ext), ext one token
EndsWith(s, ext) == Len(s) > 0 /\ s[Len(s)] = ext

\* str.endswith(tuple of extensions)
EndsWithAny(s, exts) == \E k \in DOMAIN exts : EndsWith(s, exts[k])

\* "tok" in str
Contains(s, tok) == \E i \in DOMAIN s : s[i] = tok

\* str.replace(old, new) for one-token old; new is a token sequence
RECURSIVE Replace(_, _, _)
Replace(s, old, new) ==
    IF s = << >> THEN << >>
    ELSE (IF Head(s) = old THEN new ELSE << Head(s) >>)
         \o Replace(Tail(s), old, new)

\* str.split(sep): the list of pieces
RECURSIVE Split(_, _)
Split(s, sep) ==
    IF ~ Contains(s, sep) THEN << s >>
    ELSE LET i == CHOOSE k \in DOMAIN s :
                      s[k] = sep /\ \A j \in 1 .. (k - 1) : s[j] # sep
         IN  << SubSeq(s, 1, i - 1) >> \o Split(SubSeq(s, i + 1, Len(s)), sep)

\* str.strip()
RECURSIVE Strip(_)
Strip(s) ==
    IF s = << >> THEN s
    ELSE IF Head(s) = " " THEN Strip(Tail(s))
    ELSE IF s[Len(s)] = " " THEN Strip(SubSeq(s, 1, Len(s) - 1))
    ELSE s

\* os.path.basename(name)
Basename(name) ==
    LET parts == Split(name, "/") IN parts[Len(parts)]

\* float(text) succeeds
IsFloat(s) == Len(s) = 1 /\ s[1] \in { "43.6532", "-79.3832" }

\* ----------------------------------------------------------- JSON values
Str(s)  == [ t |-> "str", v |-> s ]
Num     == [ t |-> "num", v |-> << >> ]
Absent  == [ t |-> "absent", v |-> << >> ]

\* dict.get(key, default)
DictGet(item, key, default) ==
    IF item[key].t = "absent" THEN default ELSE item[key]

\* ------------------------------------------------------------- classifier
is_supported_file(filename) ==
    \E k \in DOMAIN SUPPORTED_TYPES :
        EndsWith(Lower(filename), SUPPORTED_TYPES[k])

is_video_file(filename) == EndsWithAny(Lower(filename), VIDEO_EXTENSIONS)

IsPng(file) == EndsWith(Lower(file), ".png")

\* ------------------------------------------------- inputs (bounded sets)
DateGood == << "2024", "-", "06", "-", "01", " ", "12", ":", "00", ":", "00", " UTC" >>

LocGood == << "geo", ":", " ", "43.6532", ",", " ", "-79.3832" >>
LocText == << "geo", ":", " ", "abc", ",", " ", "def" >>

UrlPng   == << "https://x/", "a", ".PNG" >>
UrlPlain == << "https://x/", "b" >>

Item(d, l, u, m) ==
    [ Date |-> d, Location |-> l, MediaDownloadUrl |-> u, MediaType |-> m ]

\* the manifest records the runs are explored with; a manifest names each of
\* its records by its place in this list
Records ==
    << Item(Str(DateGood), Str(LocGood), Str(UrlPng),   Str(<< "Image" >>)),
       Item(Str(DateGood), Str(LocGood), Str(UrlPlain), Str(<< "Video" >>)),
       Item(Str(DateGood), Absent,       Str(UrlPlain), Absent),
       Item(Str(DateGood), Str(LocText), Str(UrlPlain), Str(<< "Image" >>)),
       Item(Str(<< " UTC" >>), Absent,   Str(UrlPlain), Absent),
       Item(Num,           Absent,       Str(UrlPlain), Absent),
       Item(Str(DateGood), Str(LocGood), Absent,        Str(<< "Video" >>)) >>

\* Content-Type headers a server may send (<< >>: no header)
ContentTypes ==
    { << "Application/", "ZIP" >>, << "video", "/x-", "zip" >>,
      << "video", "/mp4" >>, << "image", "/jpeg" >>, << "text/html" >>, << >> }

\* names an archive may list
EntryNames ==
    { << "sub", "/" >>, << "x", ".txt" >>, << "a", ".jpg" >>,
      << "sub", "/", "b", ".PNG" >> }

SeqsUpTo(S, n) == UNION { [ 1 .. k -> S ] : k \in 0 .. n }

\* response.content: an archive of n entries, or bytes that are no archive.
\* The names of the entries are met one by one as the archive is walked.
Body(valid, n) == [ valid |-> valid, n |-> n ]
NoArchive == Body(FALSE, 0)

Response(ct, body) == [ content_type |-> ct, content |-> body ]
NoResponse == Response(<< >>, NoArchive)

\* ---------------------------------------------- main: per-record locals
\* line 289: item.get("Date", "")
RawDate(item) == DictGet(item, "Date", Str(<< >>))

\* line 289: .replace('-', ':').replace(' UTC', '') raises on a non-string
DateIsText(item) == RawDate(item).t = "str"

DateOf(item) == Replace(Replace(RawDate(item).v, "-", << ":" >>), " UTC", << >>)

\* lines 295-307: the (lat, lon) pair; None is << >> (both are falsy)
ParseLocation(item) ==
    LET loc_str == DictGet(item, "Location", Str(<< >>)).v
        parts   == Split(loc_str, ":")
        coords  == Split(Strip(parts[2]), ",")
        none    == [ lat |-> << >>, lon |-> << >> ]
    IN  IF loc_str = << >> THEN none
        ELSE IF Len(parts) < 2 THEN none
        ELSE IF Len(coords) < 2 THEN none
        ELSE [ lat |-> Strip(coords[1]), lon |-> Strip(coords[2]) ]

\* line 309
UrlOf(item) == DictGet(item, "MediaDownloadUrl", Str(<< >>)).v

\* line 315
MediaTypeOf(item) == Lower(DictGet(item, "MediaType", Str(<< >>)).v)

\* lines 316-321: the extension, with its dot
ExtensionOf(item) ==
    LET url_lower == Lower(UrlOf(item))
        hits == { k \in DOMAIN SUPPORTED_TYPES : EndsWith(url_lower, SUPPORTED_TYPES[k]) }
    IN  IF hits # {}
        THEN SUPPORTED_TYPES[CHOOSE k \in hits : \A j \in hits : k <= j]
        ELSE IF MediaTypeOf(item) = << "video" >> THEN ".mp4" ELSE ".jpg"

\* line 323
SafeDate(item) == Replace(Replace(DateOf(item), ":", << >>), " ", << "_" >>)

\* lines 324-325: the path below download_folder
FilePath(item) == MediaTypeOf(item) \o << "_" >> \o SafeDate(item) \o << ExtensionOf(item) >>

\* line 218: the scratch directory below download_folder
ExtractFolder(item) == << "temp_" >> \o SafeDate(item) \o << "/" >>

\* the locals main computes for one record
MainLocals(item) ==
    [ date_is_text   |-> DateIsText(item),
      date           |-> DateOf(item),
      lat            |-> ParseLocation(item).lat,
      lon            |-> ParseLocation(item).lon,
      url            |-> UrlOf(item),
      file_path      |-> FilePath(item),
      extract_folder |-> ExtractFolder(item) ]

LocalsOf == [ k \in DOMAIN Records |-> MainLocals(Records[k]) ]

\* line 58: strptime(date, '%Y:%m:%d %H:%M:%S') succeeds
DateParses(date) ==
    /\ Len(date) = 11
    /\ \A i \in { 2, 4, 8, 10 } : date[i] = ":"
    /\ date[6] = " "
    /\ \A i \in { 1, 3, 5, 7, 9, 11 } : date[i] \notin { ":", " ", "-", " UTC" }

\* ------------------------------------------------------------- I/O events
\* one call the program makes, or what came of it: the operation, the text
\* or path it acts on, a number (an attempt, a duration, a returned value)
Op(o, a, n) == [ op |-> o, arg |-> a, n |-> n ]

Ops(e, o) == { k \in DOMAIN e : e[k].op = o }

Has(e, o) == Ops(e, o) # {}

\* ------------------------------------------------------------------ state
VARIABLES
    saved_media,      \* data["Saved Media"]: the records, each by its place in Records
    run,              \* 1: the first run of main; 2: a re-run on the same folder
    found,            \* the paths that existed when the run began
    pc,               \* where main stands
    idx,              \* the loop index of main (1-based)
    total_processed, total_skipped, total_errors,
    et,               \* the ExifToolHelper session: "unopened", "open", "closed"
    fs,               \* the paths that exist below download_folder
    attempt,          \* download_with_retries: the loop variable (0 outside it)
    response,         \* the response download_with_retries returned
    zip,              \* process_zip_file: its locals
    ev                \* the I/O calls of the last step, in order

vars ==
    << saved_media, run, found, pc, idx, total_processed, total_skipped,
       total_errors, et, fs, attempt, response, zip, ev >>

counters == << total_processed, total_skipped, total_errors >>

\* n: len(file_list); i: the entry the loop stands at; bound: extract_folder
\* has been assigned; wanted: the entries met so far that are files with a
\* supported extension (kept for the statements about the returned count)
ZipLocals(n, i, c, b, w) ==
    [ n |-> n, i |-> i, processed_count |-> c, bound |-> b, wanted |-> w ]

NoZip == ZipLocals(0, 0, 0, FALSE, 0)

\* lines 286-325: the locals of the record the loop stands at
cur == LocalsOf[saved_media[idx]]

\* line 362, line 230: "lat and lon"
HasGps == cur.lat # << >> /\ cur.lon # << >>

\* --------------------------------------------------------- the tag writer
\* set_metadata without the check of lines 44-47
set_metadata_any(file, date, lat, lon) ==
    IF ~ IsFloat(lat) \/ ~ IsFloat(lon) \/ ~ DateParses(date)
    THEN { [ ok |-> FALSE, ops |-> << >> ] }
    ELSE { [ ok |-> TRUE,  ops |-> << Op("set_tags", file, 0) >> ],
           [ ok |-> FALSE, ops |-> << Op("set_tags", file, 0) >> ] }

\* set_metadata(file, date, lat, lon, media_type, et): what it may return and
\* the engine calls it makes.  float() and strptime() raise before set_tags
\* is reached; set_tags itself may raise; every exception becomes False.
set_metadata(file, date, lat, lon) ==
    IF IsPng(file)
    THEN { [ ok |-> TRUE, ops |-> << >> ] }
    ELSE IF ~ IsFloat(lat) \/ ~ IsFloat(lon) \/ ~ DateParses(date)
    THEN { [ ok |-> FALSE, ops |-> << >> ] }
    ELSE { [ ok |-> TRUE,  ops |-> << Op("set_tags", file, 0) >> ],
           [ ok |-> FALSE, ops |-> << Op("set_tags", file, 0) >> ] }

\* verify_metadata(...): one read of the file; callers drop its result
verify_metadata(file) == << Op("get_metadata", file, 0) >>

\* ------------------------------------------ verify_metadata: its result
\* float(text) as a number of ten-thousandths of a degree
FloatOf(s) == IF s[1] = "43.6532" THEN 436532 ELSE 0 - 793832

Abs(x) == IF x < 0 THEN 0 - x ELSE x

\* a value of the re-read tags: a number, or a text
NumTag(x) == [ t |-> "num", v |-> x ]
Missing   == [ t |-> "missing", v |-> << >> ]

\* float(value): [ok, v]; a text that is no number raises ValueError
ToFloat(val) ==
    IF val.t = "num" THEN [ ok |-> TRUE, v |-> val.v ]
    ELSE IF val.t = "str" /\ IsFloat(val.v) THEN [ ok |-> TRUE, v |-> FloatOf(val.v) ]
    ELSE [ ok |-> FALSE, v |-> 0 ]

\* lines 128, 143, 148: the keys looked for, in the order of the lists
VideoGpsKeys == << "QuickTime:GPSCoordinates", "Keys:GPSCoordinates", "XMP:GPSLatitude" >>
LatKeys == << "EXIF:GPSLatitude", "Composite:GPSLatitude" >>
LonKeys == << "EXIF:GPSLongitude", "Composite:GPSLongitude" >>

\* "key in file_meta"
InMeta(file_meta, key) == file_meta[key] # Missing

\* lines 140-151: the value under the first key of the list that is in
\* file_meta, None (Missing) when none is
FirstOf(file_meta, keys) ==
    IF InMeta(file_meta, keys[1]) THEN file_meta[keys[1]]
    ELSE IF InMeta(file_meta, keys[2]) THEN file_meta[keys[2]]
    ELSE Missing

\* what et.get_metadata([file]) gives: an exception, an empty list, or a list
\* whose first element is the tags of the file
ReadRaises  == [ kind |-> "raise", meta |-> << >> ]
ReadEmpty   == [ kind |-> "empty", meta |-> << >> ]
ReadOf(m)   == [ kind |-> "ok", meta |-> m ]

\* verify_metadata with "GPS differs" answered False
verify_result_strict(file, lat, lon, media_type, read) ==
    IF read.kind # "ok" THEN FALSE
    ELSE IF ~ IsFloat(lat) \/ ~ IsFloat(lon) THEN FALSE
    ELSE IF Lower(media_type) = << "video" >> \/ EndsWithAny(Lower(file), VIDEO_EXTENSIONS)
    THEN \E k \in DOMAIN VideoGpsKeys : InMeta(read.meta, VideoGpsKeys[k])
    ELSE LET lat_meta == FirstOf(read.meta, LatKeys)
             lon_meta == FirstOf(read.meta, LonKeys)
         IN  /\ lat_meta # Missing /\ lon_meta # Missing
             /\ ToFloat(lat_meta).ok /\ ToFloat(lon_meta).ok
             /\ Abs(Abs(ToFloat(lat_meta).v) - Abs(FloatOf(lat))) < 10
             /\ Abs(Abs(ToFloat(lon_meta).v) - Abs(FloatOf(lon))) < 10

\* verify_metadata(file, date, lat, lon, media_type, et), lines 113-176: the
\* value it returns for what get_metadata gave.  media_type is lowercased
\* by the test of line 126.
verify_result(file, lat, lon, media_type, read) ==
    IF read.kind = "raise" THEN FALSE                    \* lines 174-176
    ELSE IF read.kind = "empty" THEN FALSE               \* lines 118-120
    ELSE IF ~ IsFloat(lat) \/ ~ IsFloat(lon) THEN FALSE  \* lines 123-124 raise
    ELSE IF Lower(media_type) = << "video" >> \/ EndsWithAny(Lower(file), VIDEO_EXTENSIONS)
    THEN \E k \in DOMAIN VideoGpsKeys : InMeta(read.meta, VideoGpsKeys[k])
    ELSE LET lat_meta == FirstOf(read.meta, LatKeys)
             lon_meta == FirstOf(read.meta, LonKeys)
         IN  IF lat_meta = Missing \/ lon_meta = Missing THEN FALSE   \* line 171
             ELSE IF ~ ToFloat(lat_meta).ok \/ ~ ToFloat(lon_meta).ok
             THEN FALSE                                               \* lines 167-169
             ELSE TRUE                                                \* lines 160-166

\* lines 231-232, 363-364: set_metadata, what it returned (1: True, 0: False),
\* then verify_metadata if it returned True
TagAndVerify(out, file) ==
    out.ops \o << Op("set_metadata", file, IF out.ok THEN 1 ELSE 0) >>
            \o (IF out.ok THEN verify_metadata(file) ELSE << >>)

\* ------------------------------------------------------------------- Init
InitWith(n) ==
    /\ saved_media \in SeqsUpTo(DOMAIN Records, n)
    /\ run = 1
    /\ found = {}
    /\ pc = "start"
    /\ idx = 0
    /\ total_processed = 0 /\ total_skipped = 0 /\ total_errors = 0
    /\ et = "unopened"
    /\ fs = {}
    /\ attempt = 0
    /\ response = NoResponse
    /\ zip = NoZip
    /\ ev = << >>

Init == InitWith(MaxItems)

InitRerun == InitWith(MaxRerunItems)

\* ------------------------------------------------------- main, lines 271-286
\* no record: main returns before the engine is started
StartEmpty ==
    /\ pc = "start" /\ saved_media = << >>
    /\ pc' = "returned"
    /\ ev' = << >>
    /\ UNCHANGED << saved_media, run, found, idx, counters, et, fs, attempt, response, zip >>

\* the engine session opens and the counters are set to 0
StartOpen ==
    /\ pc = "start" /\ saved_media # << >>
    /\ et' = "open"
    /\ total_processed' = 0 /\ total_skipped' = 0 /\ total_errors' = 0
    /\ idx' = 1
    /\ pc' = "loop"
    /\ ev' = << Op("et_open", << >>, 0) >>
    /\ UNCHANGED << saved_media, run, found, fs, attempt, response, zip >>

\* the engine cannot be started: the exception leaves main
StartFail ==
    /\ pc = "start" /\ saved_media # << >>
    /\ pc' = "crashed"
    /\ ev' = << Op("et_open", << >>, 0), Op("raise", << >>, 0) >>
    /\ UNCHANGED << saved_media, run, found, idx, counters, et, fs, attempt, response, zip >>

\* the next iteration of the loop
Advance ==
    /\ idx' = idx + 1
    /\ pc' = "loop"
    /\ attempt' = 0
    /\ response' = NoResponse
    /\ zip' = NoZip

CountError ==
    /\ total_errors' = total_errors + 1
    /\ UNCHANGED << total_processed, total_skipped >>

\* line 350 as "total_processed += 1"
CountProcessedByOne(n) ==
    /\ total_processed' = total_processed + 1
    /\ UNCHANGED << total_skipped, total_errors >>

\* lines 350, 365, 370
CountProcessed(n) ==
    /\ total_processed' = total_processed + n
    /\ UNCHANGED << total_skipped, total_errors >>

\* an exception leaves the loop with the session left as it is (no with block)
CrashLeavesOpen ==
    /\ pc' = "crashed"
    /\ et' = et
    /\ UNCHANGED << idx, attempt, response, zip >>

\* an exception leaves the loop: the with block closes the session and main
\* ends without its summary
Crash ==
    /\ pc' = "crashed"
    /\ et' = "closed"
    /\ UNCHANGED << idx, attempt, response, zip >>

InLoop == pc = "loop" /\ idx <= Len(saved_media)

\* line 289: the Date field is no text; .replace raises outside any try
ItemBadType ==
    /\ InLoop /\ ~ cur.date_is_text
    /\ Crash
    /\ ev' = << Op("raise", << >>, 0) >>
    /\ UNCHANGED << saved_media, run, found, counters, fs >>

\* lines 290-293
ItemMissingDate ==
    /\ InLoop /\ cur.date_is_text /\ cur.date = << >>
    /\ CountError /\ Advance
    /\ ev' = << >>
    /\ UNCHANGED << saved_media, run, found, et, fs >>

\* lines 309-313
ItemMissingUrl ==
    /\ InLoop /\ cur.date_is_text /\ cur.date # << >>
    /\ cur.url = << >>
    /\ CountError /\ Advance
    /\ ev' = << >>
    /\ UNCHANGED << saved_media, run, found, et, fs >>

\* the record has a date and a URL: its path is computed, lines 315-325
Resolved == InLoop /\ cur.date_is_text /\ cur.date # << >> /\ cur.url # << >>

\* lines 327-330 with the record counted as processed
ItemExistsAsProcessed ==
    /\ Resolved /\ cur.file_path \in fs
    /\ CountProcessed(1)
    /\ Advance
    /\ ev' = << >>
    /\ UNCHANGED << saved_media, run, found, et, fs >>

\* lines 327-330
ItemExists ==
    /\ Resolved /\ cur.file_path \in fs
    /\ total_skipped' = total_skipped + 1
    /\ UNCHANGED << total_processed, total_errors >>
    /\ Advance
    /\ ev' = << >>
    /\ UNCHANGED << saved_media, run, found, et, fs >>

\* lines 332-334 without the test of line 327
ItemDownloadAlways ==
    /\ Resolved
    /\ pc' = "download"
    /\ attempt' = 1
    /\ ev' = << >>
    /\ UNCHANGED << saved_media, run, found, idx, counters, et, fs, response, zip >>

\* lines 332-334: download_with_retries is entered
ItemDownload ==
    /\ Resolved /\ cur.file_path \notin fs
    /\ pc' = "download"
    /\ attempt' = 1
    /\ ev' = << >>
    /\ UNCHANGED << saved_media, run, found, idx, counters, et, fs, response, zip >>

\* lines 375-382: the loop is over, the session closes, the summary is printed
Finish ==
    /\ pc = "loop" /\ idx > Len(saved_media)
    /\ pc' = "done"
    /\ et' = "closed"
    /\ ev' = << Op("summary", << >>, 0) >>
    /\ UNCHANGED << saved_media, run, found, idx, counters, fs, attempt, response, zip >>

\* --------------------------------------- download_with_retries, lines 179-191
Responses ==
    { Response(ct, NoArchive) : ct \in ContentTypes }
    \cup { Response(ct, Body(TRUE, n)) : ct \in ContentTypes, n \in 0 .. MaxEntries }

\* line 180: the loop runs for attempt in 1 .. max_retries
InDownload == pc = "download" /\ attempt <= max_retries

\* lines 182-184: the request succeeds and the response is returned
GetOk ==
    /\ InDownload
    /\ \E r \in Responses : response' = r
    /\ attempt' = 0
    /\ pc' = "dispatch"
    /\ ev' = << Op("GET", cur.url, attempt) >>
    /\ UNCHANGED << saved_media, run, found, idx, counters, et, fs, zip >>

\* lines 185-190 without the test of line 187
GetRetryUncapped ==
    /\ InDownload
    /\ attempt' = attempt + 1
    /\ ev' = << Op("GET", cur.url, attempt), Op("retryable_error", << >>, 0),
                Op("sleep", << >>, backoff ^ attempt) >>
    /\ UNCHANGED << saved_media, run, found, pc, idx, counters, et, fs, response, zip >>

\* lines 185-190: HTTPError, Timeout or ConnectionError before the last
\* attempt: the function sleeps and tries again
GetRetry ==
    /\ InDownload /\ attempt # max_retries
    /\ attempt' = attempt + 1
    /\ ev' = << Op("GET", cur.url, attempt), Op("retryable_error", << >>, 0),
                Op("sleep", << >>, backoff ^ attempt) >>
    /\ UNCHANGED << saved_media, run, found, pc, idx, counters, et, fs, response, zip >>

\* lines 187-188 and 335-338: the same on the last attempt: the error is
\* raised again and main counts it
GetExhausted ==
    /\ InDownload /\ attempt = max_retries
    /\ ev' = << Op("GET", cur.url, attempt), Op("retryable_error", << >>, 0) >>
    /\ CountError /\ Advance
    /\ UNCHANGED << saved_media, run, found, et, fs >>

\* any other exception of requests.get is not caught by line 185: it leaves
\* download_with_retries at once and main counts it (lines 335-338)
GetFatal ==
    /\ InDownload
    /\ ev' = << Op("GET", cur.url, attempt), Op("other_error", << >>, 0) >>
    /\ CountError /\ Advance
    /\ UNCHANGED << saved_media, run, found, et, fs >>

\* ------------------------------------------------- main, lines 340-373
content_type == Lower(response.content_type)

\* line 343 with its second test alone
IsZipKindExact == content_type = << "application/", "zip" >>

\* line 343
IsZipKind == Contains(content_type, "zip")

\* line 354
IsMediaKind == Contains(content_type, "video") \/ Contains(content_type, "image")

\* line 341: the kind is printed
Kind == << Op("content_type", content_type, 0) >>

\* lines 204, 249-251 and 349-352: the bytes are no archive; process_zip_file
\* returns 0 and main counts an error
ZipInvalid ==
    /\ pc = "dispatch" /\ IsZipKind /\ ~ response.content.valid
    /\ ev' = Kind \o << Op("zip_open", << >>, 0), Op("raise", << >>, 0),
                        Op("return", << >>, 0) >>
    /\ CountError /\ Advance
    /\ UNCHANGED << saved_media, run, found, et, fs >>

\* lines 201-207: the archive opens and its names are listed; the response
\* is not read again
ZipOpen ==
    /\ pc = "dispatch" /\ IsZipKind /\ response.content.valid
    /\ zip' = ZipLocals(response.content.n, 1, 0, FALSE, 0)
    /\ response' = NoResponse
    /\ pc' = "zip"
    /\ ev' = Kind \o << Op("zip_open", << >>, 0) >>
    /\ UNCHANGED << saved_media, run, found, idx, counters, et, fs, attempt >>

\* lines 356-357 fail: open() or write() raises outside any try; the file may
\* have been created before the failure
SaveFails ==
    /\ pc = "dispatch" /\ ~ IsZipKind /\ IsMediaKind
    /\ \E created \in BOOLEAN :
           fs' = IF created THEN fs \cup { cur.file_path } ELSE fs
    /\ ev' = Kind \o << Op("write", cur.file_path, 0), Op("raise", << >>, 0) >>
    /\ Crash
    /\ UNCHANGED << saved_media, run, found, counters >>

\* lines 356-357 and 368-370: saved, no coordinates
SaveNoGps ==
    /\ pc = "dispatch" /\ ~ IsZipKind /\ IsMediaKind /\ ~ HasGps
    /\ fs' = fs \cup { cur.file_path }
    /\ ev' = Kind \o << Op("write", cur.file_path, 0) >>
    /\ CountProcessed(1)
    /\ Advance
    /\ UNCHANGED << saved_media, run, found, et >>

\* lines 356-367: saved, then set_metadata and, if it says True, verify_metadata
SaveAndTag ==
    /\ pc = "dispatch" /\ ~ IsZipKind /\ IsMediaKind /\ HasGps
    /\ fs' = fs \cup { cur.file_path }
    /\ \E out \in set_metadata(cur.file_path, cur.date, cur.lat, cur.lon) :
         /\ ev' = Kind \o << Op("write", cur.file_path, 0) >>
                       \o TagAndVerify(out, cur.file_path)
         /\ IF out.ok THEN CountProcessed(1) ELSE CountError
    /\ Advance
    /\ UNCHANGED << saved_media, run, found, et >>

\* lines 371-373
Unsupported ==
    /\ pc = "dispatch" /\ ~ IsZipKind /\ ~ IsMediaKind
    /\ ev' = Kind
    /\ CountError /\ Advance
    /\ UNCHANGED << saved_media, run, found, et, fs >>

\* ------------------------------------------ process_zip_file, lines 209-254
\* line 222
extracted_path(file_name) == cur.extract_folder \o file_name

\* line 237
final_path(file_name) == Basename(file_name)

InZipLoop == pc = "zip" /\ zip.i <= zip.n

\* lines 210-215: the entry is a file with a supported extension
Wanted(file_name) == ~ EndsWith(file_name, "/") /\ is_supported_file(file_name)

\* the directories z.extract creates below the folder for a member name
RECURSIVE ParentDirs(_, _)
ParentDirs(folder, name) ==
    IF ~ Contains(name, "/") THEN {}
    ELSE LET k == CHOOSE j \in DOMAIN name :
                      name[j] = "/" /\ \A m \in (j + 1) .. Len(name) : name[m] # "/"
             dir == SubSeq(name, 1, k)
         IN  { folder \o dir } \cup ParentDirs(folder, SubSeq(name, 1, k - 1))

\* os.listdir(folder) == []
IsEmptyDir(files, folder) ==
    ~ \E p \in files : Len(p) > Len(folder) /\ SubSeq(p, 1, Len(folder)) = folder

\* lines 349-352 with "processed >= 0"
ReturnToMainNoError(n) == CountProcessed(n) /\ Advance

\* process_zip_file returns n to main, lines 349-352
ReturnToMain(n) ==
    /\ IF n > 0 THEN CountProcessed(n) ELSE CountError
    /\ Advance

\* lines 210-215: a directory entry or an unsupported name is passed over
ZipSkipEntry ==
    /\ InZipLoop
    /\ \E file_name \in EntryNames :
         /\ ~ Wanted(file_name)
         /\ ev' = << Op("entry", file_name, 0) >>
    /\ zip' = [ zip EXCEPT !.i = @ + 1 ]
    /\ UNCHANGED << saved_media, run, found, pc, idx, counters, et, fs, attempt, response >>

\* lines 218-221 fail: the folder is made, z.extract raises; lines 252-254
ZipExtractFails ==
    /\ InZipLoop
    /\ \E file_name \in EntryNames :
         /\ Wanted(file_name)
         /\ ev' = << Op("entry", file_name, 0), Op("makedirs", cur.extract_folder, 0),
                     Op("extract", extracted_path(file_name), 0),
                     Op("raise", << >>, 0), Op("return", << >>, 0) >>
    /\ fs' = fs \cup { cur.extract_folder }
    /\ ReturnToMain(0)
    /\ UNCHANGED << saved_media, run, found, et >>

\* line 230: the entry is to be tagged
ZipTags(file_name) == ~ IsPng(file_name) /\ HasGps

\* lines 229-234: what set_metadata may do for the extracted file
ZipTagOutcomes(file_name) ==
    IF ZipTags(file_name)
    THEN set_metadata(extracted_path(file_name), cur.date, cur.lat, cur.lon)
    ELSE { [ ok |-> TRUE, ops |-> << >> ] }

\* lines 231-232: the engine calls made for the extracted file
ZipTagOps(out, file_name) ==
    IF ZipTags(file_name) THEN TagAndVerify(out, extracted_path(file_name)) ELSE << >>

\* lines 218-234: the entry is extracted into the folder and tagged
ExtractAndTag(out, file_name) ==
    << Op("entry", file_name, 0), Op("makedirs", cur.extract_folder, 0),
       Op("extract", extracted_path(file_name), 0) >> \o ZipTagOps(out, file_name)

\* lines 218-241 with the count raised only for a tagged entry
ZipEntryCountsTagged ==
    /\ InZipLoop
    /\ \E file_name \in EntryNames :
         /\ Wanted(file_name)
         /\ fs' = (fs \cup { cur.extract_folder }
                      \cup ParentDirs(cur.extract_folder, file_name)
                      \cup { final_path(file_name) })
                   \ { extracted_path(file_name) }
         /\ \E out \in ZipTagOutcomes(file_name) :
              /\ ev' = ExtractAndTag(out, file_name)
                       \o << Op("move", final_path(file_name), 0) >>
              /\ zip' = [ zip EXCEPT !.i = @ + 1,
                                     !.processed_count = IF out.ok THEN @ + 1 ELSE @,
                                     !.bound = TRUE, !.wanted = @ + 1 ]
    /\ UNCHANGED << saved_media, run, found, pc, idx, counters, et, attempt, response >>

\* lines 218-241 with the move of line 238 made before lines 230-234
ZipEntryMovesFirst ==
    /\ InZipLoop
    /\ \E file_name \in EntryNames :
         /\ Wanted(file_name)
         /\ fs' = (fs \cup { cur.extract_folder }
                      \cup ParentDirs(cur.extract_folder, file_name)
                      \cup { final_path(file_name) })
                   \ { extracted_path(file_name) }
         /\ \E out \in ZipTagOutcomes(file_name) :
              ev' = << Op("entry", file_name, 0), Op("makedirs", cur.extract_folder, 0),
                       Op("extract", extracted_path(file_name), 0),
                       Op("move", final_path(file_name), 0) >>
                    \o (IF ZipTags(file_name)
                        THEN TagAndVerify(out, final_path(file_name)) ELSE << >>)
    /\ zip' = [ zip EXCEPT !.i = @ + 1, !.processed_count = @ + 1, !.bound = TRUE,
                           !.wanted = @ + 1 ]
    /\ UNCHANGED << saved_media, run, found, pc, idx, counters, et, attempt, response >>

\* lines 218-241: one entry is extracted, tagged, moved and counted
ZipEntry ==
    /\ InZipLoop
    /\ \E file_name \in EntryNames :
         /\ Wanted(file_name)
         /\ fs' = (fs \cup { cur.extract_folder }
                      \cup ParentDirs(cur.extract_folder, file_name)
                      \cup { final_path(file_name) })
                   \ { extracted_path(file_name) }
         /\ \E out \in ZipTagOutcomes(file_name) :
              ev' = ExtractAndTag(out, file_name)
                    \o << Op("move", final_path(file_name), 0) >>
    /\ zip' = [ zip EXCEPT !.i = @ + 1, !.processed_count = @ + 1, !.bound = TRUE,
                           !.wanted = @ + 1 ]
    /\ UNCHANGED << saved_media, run, found, pc, idx, counters, et, attempt, response >>

\* line 238 fails: shutil.move raises, the file stays in the folder; 252-254
ZipMoveFails ==
    /\ InZipLoop
    /\ \E file_name \in EntryNames :
         /\ Wanted(file_name)
         /\ fs' = fs \cup { cur.extract_folder }
                     \cup ParentDirs(cur.extract_folder, file_name)
                     \cup { extracted_path(file_name) }
         /\ \E out \in ZipTagOutcomes(file_name) :
              ev' = ExtractAndTag(out, file_name)
                    \o << Op("move", final_path(file_name), 0), Op("raise", << >>, 0),
                          Op("return", << >>, 0) >>
    /\ ReturnToMain(0)
    /\ UNCHANGED << saved_media, run, found, et >>

\* lines 243-247 without the removal
ZipReturnKeeps ==
    /\ pc = "zip" /\ zip.i > zip.n /\ zip.bound
    /\ fs' = fs
    /\ ev' = << Op("return", << >>, zip.processed_count) >>
    /\ ReturnToMain(zip.processed_count)
    /\ UNCHANGED << saved_media, run, found, et >>

\* lines 243-247: the folder is removed if it exists and is empty, and the
\* count is returned
ZipReturn ==
    /\ pc = "zip" /\ zip.i > zip.n /\ zip.bound
    /\ LET remove == cur.extract_folder \in fs /\ IsEmptyDir(fs, cur.extract_folder)
       IN  /\ fs' = IF remove THEN fs \ { cur.extract_folder } ELSE fs
           /\ ev' = (IF remove THEN << Op("rmdir", cur.extract_folder, 0) >> ELSE << >>)
                    \o << Op("return", << >>, zip.processed_count) >>
    /\ ReturnToMain(zip.processed_count)
    /\ UNCHANGED << saved_media, run, found, et >>

\* line 244 with no entry extracted: extract_folder was never assigned, the
\* UnboundLocalError is caught by line 252 and 0 is returned
ZipReturnUnbound ==
    /\ pc = "zip" /\ zip.i > zip.n /\ ~ zip.bound
    /\ ev' = << Op("raise", << >>, 0), Op("return", << >>, 0) >>
    /\ ReturnToMain(0)
    /\ UNCHANGED << saved_media, run, found, et, fs >>

\* ------------------------------------------------------------- a re-run
\* main has ended with its summary and is started again on the same manifest
\* and the same download_folder
Rerun ==
    /\ pc = "done" /\ run = 1
    /\ run' = 2
    /\ found' = fs
    /\ pc' = "start"
    /\ idx' = 0
    /\ total_processed' = 0 /\ total_skipped' = 0 /\ total_errors' = 0
    /\ et' = "unopened"
    /\ attempt' = 0
    /\ response' = NoResponse /\ zip' = NoZip
    /\ ev' = << >>
    /\ UNCHANGED << saved_media, fs >>

\* ------------------------------------------ the calls of verify_metadata
\* records a manifest may hold, for the calls of verify_metadata: those of
\* Records and one with a .PNG URL and a location that is no pair of numbers
VerifyItems ==
    { Records[k] : k \in DOMAIN Records }
    \cup { Item(Str(DateGood), Str(LocText), Str(UrlPng), Str(<< "Image" >>)) }

\* lines 227 and 360: the media type the callers pass
file_media_type(file) == IF is_video_file(file) THEN << "video" >> ELSE << "image" >>

\* the files of a record that may be handed to the tag writer: its own path
\* (line 363) and the extracted entries that are not PNG (lines 230-231)
VerifyFiles(item) ==
    { FilePath(item) }
    \cup { ExtractFolder(item) \o n : n \in { m \in EntryNames : Wanted(m) /\ ~ IsPng(m) } }

\* lines 231-232 and 363-364: verify_metadata is called for a saved or
\* extracted file of a record with coordinates, after set_metadata returned
\* True for that file
VerifyCalls ==
    UNION { { [ file |-> f, lat |-> ParseLocation(item).lat,
                lon |-> ParseLocation(item).lon, media_type |-> file_media_type(f) ] :
              f \in { g \in VerifyFiles(item) :
                        \E out \in set_metadata(g, DateOf(item), ParseLocation(item).lat,
                                                ParseLocation(item).lon) : out.ok } } :
            item \in { i \in VerifyItems :
                         /\ DateIsText(i) /\ DateOf(i) # << >> /\ UrlOf(i) # << >>
                         /\ ParseLocation(i).lat # << >> /\ ParseLocation(i).lon # << >> } }

\* values the re-read tags may hold
TagValues ==
    { Missing, NumTag(436532), NumTag(436539), NumTag(793832),
      Str(<< "-79.3832" >>), Str(<< "abc" >>) }

Metas ==
    { gps @@ vid :
        gps \in [ { LatKeys[1], LatKeys[2], LonKeys[1], LonKeys[2] } -> TagValues ],
        vid \in [ { VideoGpsKeys[k] : k \in DOMAIN VideoGpsKeys }
                    -> { Missing, Str(<< "43.653200, 79.383200" >>) } ] }

Reads == { ReadRaises, ReadEmpty } \cup { ReadOf(m) : m \in Metas }

\* one call of verify_metadata is about to be made: its arguments and what
\* get_metadata will give
InitVerify ==
    /\ saved_media = << >>
    /\ run = 1
    /\ found = {}
    /\ pc = "verify"
    /\ idx = 0
    /\ total_processed = 0 /\ total_skipped = 0 /\ total_errors = 0
    /\ et = "open"
    /\ fs = {}
    /\ attempt = 0
    /\ response = NoResponse
    /\ zip = NoZip
    /\ \E c \in VerifyCalls, r \in Reads :
           ev = << Op("get_metadata", [ call |-> c, read |-> r ], 0) >>

\* verify_metadata runs and returns (n = 1: True, n = 0: False)
Verify ==
    /\ pc = "verify"
    /\ pc' = "verified"
    /\ LET c == ev[1].arg.call
       IN  ev' = << Op("verify_metadata", ev[1].arg,
                       IF verify_result(c.file, c.lat, c.lon, c.media_type, ev[1].arg.read)
                       THEN 1 ELSE 0) >>
    /\ UNCHANGED << saved_media, run, found, idx, counters, et, fs, attempt, response, zip >>

\* ---------------------------------------------------------- specifications
Next ==
    \/ StartEmpty \/ StartOpen \/ StartFail
    \/ ItemBadType \/ ItemMissingDate \/ ItemMissingUrl \/ ItemExists \/ ItemDownload
    \/ Finish
    \/ GetOk \/ GetRetry \/ GetExhausted \/ GetFatal
    \/ ZipInvalid \/ ZipOpen \/ SaveFails \/ SaveNoGps \/ SaveAndTag \/ Unsupported
    \/ ZipSkipEntry \/ ZipExtractFails \/ ZipEntry \/ ZipMoveFails
    \/ ZipReturn \/ ZipReturnUnbound

Spec == Init /\ [][Next]_vars

\* two runs in a row
SpecRerun == InitRerun /\ [][Next \/ Rerun]_vars

\* the calls of verify_metadata, one by one
SpecVerify == InitVerify /\ [][Verify]_vars

\* ------------------------------------------------------------ statements
Last(e) == e[Len(e)]

\* the step is taken inside process_zip_file
InArchive == pc = "zip" \/ (pc = "dispatch" /\ Contains(Lower(response.content_type), "zip"))

OneMoreError ==
    /\ total_errors' = total_errors + 1
    /\ total_processed' = total_processed
    /\ total_skipped' = total_skipped

\* C1: no failure met while one record is handled ends the loop: once the
\* engine has started, main ends only by leaving the loop and printing its
\* summary, never by an exception.
C1_NoRecordEndsTheBatch == ~ (pc = "crashed" /\ idx >= 1)

\* the record at place k has a date and a URL, and its path was there when
\* the run began
Found(k) ==
    LET l == LocalsOf[saved_media[k]]
    IN  l.date_is_text /\ l.date # << >> /\ l.url # << >> /\ l.file_path \in found

C3_TagFailureIsNoError ==
    [][ (/\ Has(ev', "set_metadata")
         /\ \A k \in Ops(ev', "set_metadata") : ev'[k].n = 0
         /\ ~ Has(ev', "raise"))
        => /\ total_errors' = total_errors
           /\ \A k \in Ops(ev', "write") \cup Ops(ev', "move") : ev'[k].arg \in fs' ]_vars

\* C4 as stated, its last sentence: a download ends in an error only after
\* max_retries attempts.
C4_EveryFailureRetried ==
    [][ (pc = "download" /\ pc' = "loop") => attempt = max_retries ]_vars

\* C4 as amended: the k-th request of a record is made at attempt k, with k
\* at most max_retries; a request is made only inside download_with_retries,
\* and none after the one that succeeds; the pause of backoff^attempt seconds
\* follows a failed attempt with HTTPError, Timeout or ConnectionError that
\* is not the last, and only such an attempt; such a failure ends the
\* download only at attempt max_retries; any other exception ends it at the
\* attempt where it occurs, with no pause; when the download ends in an error
\* main counts one error, saves nothing and goes on to the next record.
C4_Retries ==
    [][ /\ Has(ev', "GET") =>
              /\ pc = "download"
              /\ Ops(ev', "GET") = { 1 }
              /\ ev'[1].n = attempt
              /\ attempt \in 1 .. max_retries
        /\ (pc = "download" /\ pc' = "dispatch") => ev' = << Op("GET", cur.url, attempt) >>
        /\ pc = "dispatch" => ~ Has(ev', "GET")
        /\ Has(ev', "sleep") =>
              /\ ev' = << Op("GET", cur.url, attempt), Op("retryable_error", << >>, 0),
                          Op("sleep", << >>, backoff ^ attempt) >>
              /\ attempt < max_retries
              /\ pc' = "download" /\ attempt' = attempt + 1
        /\ (Has(ev', "retryable_error") /\ attempt < max_retries) => Has(ev', "sleep")
        /\ (Has(ev', "retryable_error") /\ pc' = "loop") => attempt = max_retries
        /\ Has(ev', "other_error") => (pc' = "loop" /\ ~ Has(ev', "sleep"))
        /\ (pc = "download" /\ pc' = "loop") =>
              /\ OneMoreError
              /\ fs' = fs
              /\ idx' = idx + 1 ]_vars

C4_Witness ==
    /\ pc = "loop" /\ idx = 2 /\ total_errors = 1 /\ fs = {}
    /\ Len(ev) = 2
    /\ ev[1].op = "GET" /\ ev[1].n = max_retries
    /\ ev[2].op = "retryable_error"

\* C5: when process_zip_file returns without an exception it has walked every
\* entry and returns the number of entries that are files with a supported
\* extension; such an entry is counted in the step that moves it to the
\* destination directory, whatever set_metadata did; any other entry is not
\* extracted, not moved and not counted.
C5_ReturnedCount ==
    [][ pc = "zip" =>
          /\ (Has(ev', "return") /\ ~ Has(ev', "raise")) =>
                /\ zip.i > zip.n
                /\ Last(ev').n = zip.wanted
          /\ (Has(ev', "entry") /\ ~ Has(ev', "raise")) =>
                IF Wanted(ev'[1].arg)
                THEN /\ zip'.processed_count = zip.processed_count + 1
                     /\ zip'.wanted = zip.wanted + 1
                     /\ Last(ev') = Op("move", Basename(ev'[1].arg), 0)
                     /\ Basename(ev'[1].arg) \in fs'
                     /\ cur.extract_folder \o ev'[1].arg \notin fs'
                ELSE /\ zip'.processed_count = zip.processed_count
                     /\ zip'.wanted = zip.wanted
                     /\ ev' = << Op("entry", ev'[1].arg, 0) >>
                     /\ fs' = fs ]_vars

C5_Witness ==
    /\ pc = "loop" /\ idx = 2
    /\ Len(ev) >= 1 /\ Last(ev) = Op("return", << >>, 2)
    /\ total_processed = 2
    /\ { << "a", ".jpg" >>, << "b", ".PNG" >> } \subseteq fs

\* C6: an exception inside process_zip_file (bytes that are no archive, a
\* failure while an entry is extracted or moved) never leaves it: 0 is
\* returned, what was in the destination directory stays there, and main
\* counts one error and nothing as processed.
C6_ArchiveFailure ==
    [][ InArchive =>
          /\ pc' # "crashed"
          /\ Has(ev', "raise") =>
                /\ Last(ev') = Op("return", << >>, 0)
                /\ pc' = "loop" /\ idx' = idx + 1
                /\ OneMoreError
                /\ fs \subseteq fs' ]_vars

C6_Witness ==
    /\ pc = "loop" /\ idx = 2 /\ run = 1
    /\ Has(ev, "move") /\ Has(ev, "raise") /\ Last(ev) = Op("return", << >>, 0)
    /\ << "a", ".jpg" >> \in fs
    /\ total_processed = 0 /\ total_errors = 1

C8_NoTagWriteOnPng ==
    [][ /\ \A k \in Ops(ev', "set_tags") : ~ EndsWith(Lower(ev'[k].arg), ".png")
        /\ (/\ pc = "zip" /\ Has(ev', "entry") /\ ~ Has(ev', "raise")
            /\ EndsWith(Lower(ev'[1].arg), ".png"))
           => /\ ~ Has(ev', "set_tags")
              /\ zip'.processed_count = zip.processed_count + 1
              /\ Basename(ev'[1].arg) \in fs' ]_vars

C8_Witness ==
    /\ pc = "loop" /\ idx = 2 /\ run = 1
    /\ Len(ev) >= 1 /\ Last(ev) = Op("return", << >>, 1)
    /\ << "b", ".PNG" >> \in fs /\ << "a", ".jpg" >> \notin fs
    /\ total_processed = 1

\* C9: a response is routed by its lowercased content kind: with "zip" in it
\* the archive is opened and main writes no file, whatever else the kind
\* holds; otherwise with "video" or "image" in it the bytes are written to the
\* record's path; otherwise nothing is written and one error is counted.
\* While the archive is walked main's write is never made.
C9_Routing ==
    [][ /\ pc = "dispatch" =>
              LET kind == Lower(response.content_type)
              IN  /\ ev'[1] = Op("content_type", kind, 0)
                  /\ IF Contains(kind, "zip")
                     THEN /\ Has(ev', "zip_open") /\ ~ Has(ev', "write")
                          /\ pc' \in { "zip", "loop" }
                          /\ fs' = fs
                     ELSE IF Contains(kind, "video") \/ Contains(kind, "image")
                     THEN /\ ~ Has(ev', "zip_open")
                          /\ ev'[2] = Op("write", cur.file_path, 0)
                          /\ pc' \in { "loop", "crashed" }
                          /\ pc' = "loop" => cur.file_path \in fs'
                     ELSE /\ Len(ev') = 1
                          /\ fs' = fs
                          /\ OneMoreError
                          /\ pc' = "loop" /\ idx' = idx + 1
        /\ pc = "zip" => (~ Has(ev', "write") /\ (cur.file_path \in fs' => cur.file_path \in fs))
      ]_vars

C9_Witness ==
    /\ pc = "zip"
    /\ ev = << Op("content_type", << "video", "/x-", "zip" >>, 0), Op("zip_open", << >>, 0) >>

\* C10: a record whose path exists is skipped: no request, no engine call,
\* no change of any file; skipped rises by one, processed and errors stay.
C10_ExistingIsSkipped ==
    [][ (/\ pc = "loop" /\ idx <= Len(saved_media)
         /\ cur.date_is_text /\ cur.date # << >> /\ cur.url # << >>
         /\ cur.file_path \in fs)
        => /\ ev' = << >>
           /\ fs' = fs
           /\ et' = et
           /\ total_skipped' = total_skipped + 1
           /\ total_processed' = total_processed
           /\ total_errors' = total_errors
           /\ pc' = "loop" /\ idx' = idx + 1 ]_vars

C10_Witness ==
    /\ run = 1 /\ pc = "loop" /\ idx = 3
    /\ total_skipped = 1 /\ total_processed = 1
    /\ ev = << >>

\* the record at place k of the list has a location that parses into a
\* latitude/longitude pair of numbers
LocationParses(k) == IsFloat(LocalsOf[k].lat) /\ IsFloat(LocalsOf[k].lon)

\* C11: a record whose location is absent or does not parse into a pair of
\* numbers goes on without coordinates: on the direct route its file is
\* saved with no set_tags call, processed rises by one and errors stays; on
\* the archive route no set_tags call is made for its entries.
C11_NoCoordinatesIsProcessed ==
    [][ /\ (/\ pc = "dispatch" /\ ~ IsZipKind /\ IsMediaKind
            /\ ~ LocationParses(saved_media[idx])
            /\ ~ Has(ev', "raise"))
           => /\ ~ Has(ev', "set_tags")
              /\ cur.file_path \in fs'
              /\ total_processed' = total_processed + 1
              /\ total_errors' = total_errors
        /\ (pc = "zip" /\ ~ LocationParses(saved_media[idx]))
           => ~ Has(ev', "set_tags") ]_vars

\* the run has ended: main returned early, printed its summary, or an
\* exception left it
Ended == pc \in { "returned", "done", "crashed" }

EngineCall(e) == Has(e, "set_tags") \/ Has(e, "get_metadata")

\* C12: the session is opened at most once in a run, from the state where no
\* record has been handled; while a record is handled the session is open;
\* every set_tags and get_metadata call is made with the session open; and no
\* session is open once the run has ended, also when an exception left the
\* loop.  A session that was opened is never left by any other step.
C12_EngineSession ==
    /\ [] /\ Ended => et # "open"
          /\ pc \in { "loop", "download", "dispatch", "zip" } => et = "open"
          /\ et = "unopened" => (idx = 0 /\ pc \in { "start", "returned", "crashed" })
    /\ [][ /\ (et' = "open" /\ et # "open") =>
                 (et = "unopened" /\ pc = "start" /\ idx = 0 /\ Has(ev', "et_open"))
           /\ EngineCall(ev') => (et = "open" /\ pc \in { "dispatch", "zip" })
           /\ (et = "open" /\ et' # "open") => (et' = "closed" /\ Ended')
           /\ et = "closed" => et' = "closed" ]_vars

C12_Witness ==
    /\ pc = "crashed" /\ et = "closed"
    /\ idx = 2 /\ total_processed = 1
    /\ Has(ev, "raise")

\* the call whose result the state shows
VCall == ev[1].arg.call
VRead == ev[1].arg.read
VTrue == ev[1].n = 1

VideoKind == VCall.media_type = << "video" >> \/ is_video_file(VCall.file)

\* the latitude and the longitude of the re-read tags, each under the first
\* of its two keys that is there
LatMeta == FirstOf(VRead.meta, LatKeys)
LonMeta == FirstOf(VRead.meta, LonKeys)

Numeric(val) == val.t = "num" \/ (val.t = "str" /\ IsFloat(val.v))

\* the re-read value is within 0.001 degrees of the expected one, in
\* absolute values
Within(val, text) == Abs(Abs(ToFloat(val).v) - Abs(FloatOf(text))) < 10

At(e, o) == IF Has(e, o) THEN CHOOSE k \in Ops(e, o) : TRUE ELSE 0

\* the operation is a call of the engine or of the tag writer
OnEngine(o) == o \in { "set_tags", "set_metadata", "get_metadata" }

\* C14: in process_zip_file an entry is extracted, then tagged, then
\* verified, then moved, each at most once and all on the extracted file;
\* get_metadata is called only right after set_metadata returned True for
\* that file; the move is made whether set_metadata returned True or False,
\* and also when it was not called; and no engine call of the run is made on
\* a file that is already in the destination directory.
C14_ArchiveLifecycle ==
    [][ /\ (pc = "zip" /\ Has(ev', "extract")) =>
              LET e  == ev'
                  x  == At(e, "extract")
                  f  == e[x].arg
              IN  /\ Cardinality(Ops(e, "extract")) = 1
                  /\ e[1].op = "entry" /\ f = cur.extract_folder \o e[1].arg
                  /\ \A k \in DOMAIN e : OnEngine(e[k].op) => (x < k /\ e[k].arg = f)
                  /\ \A o \in { "set_tags", "set_metadata", "get_metadata", "move" } :
                         Cardinality(Ops(e, o)) <= 1
                  /\ Has(e, "set_tags") => At(e, "set_tags") < At(e, "set_metadata")
                  /\ Has(e, "get_metadata") =>
                         /\ At(e, "get_metadata") = At(e, "set_metadata") + 1
                         /\ e[At(e, "set_metadata")].n = 1
                  /\ (Has(e, "set_metadata") /\ e[At(e, "set_metadata")].n = 1)
                         => Has(e, "get_metadata")
                  /\ e[x + 1].op # "raise" =>
                         /\ Has(e, "move")
                         /\ e[At(e, "move")].arg = Basename(e[1].arg)
                         /\ \A k \in DOMAIN e :
                                (OnEngine(e[k].op) \/ k = x) => k < At(e, "move")
                  /\ (Has(e, "move") /\ ~ Has(e, "raise")) => e[At(e, "move")].arg \in fs'
        /\ \A k \in DOMAIN ev' :
              (OnEngine(ev'[k].op) /\ ev'[k].arg \in fs) => ev'[k].arg[1] = "temp_"
      ]_vars

\* an entry was extracted, its tag write failed, and it was moved all the same
C14_Witness ==
    /\ pc = "zip" /\ Len(ev) = 6
    /\ ev[3].op = "extract" /\ ev[4].op = "set_tags"
    /\ ev[5] = Op("set_metadata", ev[3].arg, 0)
    /\ ev[6] = Op("move", << "a", ".jpg" >>, 0)
    /\ << "a", ".jpg" >> \in fs

\* the records handled to completion so far
Handled == IF idx = 0 THEN 0 ELSE idx - 1

Total == total_processed + total_skipped + total_errors

\* C15: the counters start at 0 and never decrease; a step that completes a
\* record changes exactly one of them: skipped or errors rises by 1, or
\* processed rises by the count process_zip_file returned (at least 1) on the
\* archive route and by 1 on the direct route; no other step changes them.
\* So after n records skipped + errors <= n <= processed + skipped + errors,
\* and the sum exceeds n only if an archive returned more than 1.
C15_CounterAccounting ==
    /\ [] /\ idx = 0 => Total = 0
          /\ total_processed >= 0 /\ total_skipped >= 0 /\ total_errors >= 0
          /\ total_skipped + total_errors <= Handled
          /\ Total >= Handled
    /\ [][ /\ total_processed' >= total_processed
           /\ total_skipped' >= total_skipped
           /\ total_errors' >= total_errors
           /\ (idx >= 1 /\ idx' = idx) => counters' = counters
           /\ (idx >= 1 /\ idx' = idx + 1) =>
                \/ /\ total_skipped' = total_skipped + 1
                   /\ total_processed' = total_processed /\ total_errors' = total_errors
                \/ OneMoreError
                \/ /\ total_skipped' = total_skipped /\ total_errors' = total_errors
                   /\ IF pc = "zip"
                      THEN /\ Last(ev').op = "return" /\ Last(ev').n >= 1
                           /\ total_processed' = total_processed + Last(ev').n
                      ELSE /\ pc = "dispatch" /\ Has(ev', "write")
                           /\ total_processed' = total_processed + 1
           /\ (idx >= 1 /\ Total' - Total > 1) =>
                (pc = "zip" /\ Last(ev').op = "return" /\ Last(ev').n > 1) ]_vars

\* two records handled: an archive that yielded two entries and an error
C15_Witness ==
    /\ pc = "loop" /\ idx = 3
    /\ total_processed = 2 /\ total_errors = 1 /\ total_skipped = 0
    /\ Total > Handled

\* C16: when the step that completes a record counts it as an error, no file
\* is at the record's path {media_type}_{safe_date}.{extension} afterwards,
\* so that a later run does not skip the record at line 327.
C16_ErrorLeavesNoFile ==
    [][ (/\ pc \in { "download", "dispatch", "zip" }
         /\ idx' = idx + 1
         /\ total_errors' = total_errors + 1)
        => cur.file_path \notin fs' ]_vars

====
